---- MODULE Spec2Model ----
(***************************************************************************)
(* A model of train.py: the life of one run of                             *)
(*     m = Model(args); m.data_prep(); m.train(); m.predict()              *)
(* and of the pure kernel mask_attn_weights (SpecMask), of the encoding of  *)
(* the examples by data_prep / transform_roc (SpecRoc), and of runs long    *)
(* enough to reach the mid-epoch evaluation points (SpecLong).              *)
(*                                                                         *)
(* Tensors are not modelled by their numbers but by where their content    *)
(* comes from: a tensor value is a sequence of rows, each row a pair       *)
(* <<tag, index>>:                                                          *)
(*     <<"init", i>>   the freshly initialised i-th trainable parameter    *)
(*     <<"tok", i>>    row i of the pretrained token-embedding tensor      *)
(*     <<"pos", j>>    row j of the pretrained position-embedding tensor   *)
(*     <<"rand", k>>   the k-th freshly sampled special-token row          *)
(*     <<"pre", i>>    the pretrained tensor at index i of the file list   *)
(*     <<"upd", k>>    the parameter after the k-th optimizer update       *)
(***************************************************************************)
EXTENDS Integers, Sequences, FiniteSets, TLC

VARIABLES
    pc,               \* position of the run in  __main__ / train()
    params,           \* self.params, the configuration dictionary
    data,             \* the dataset the collaborators deliver (sizes, lengths)
    pre,              \* the pretrained checkpoint files under model/
    n_vocab,          \* self.n_vocab
    n_train,          \* self.n_train
    n_valid,          \* self.n_valid
    n_batch_train,    \* self.n_batch_train
    n_updates_total,  \* self.n_updates_total
    n_updates,        \* self.n_updates
    n_epochs,         \* self.n_epochs
    best_score,       \* self.best_score
    live,             \* the trainable variables of the session, in creation order
    liveAcc,          \* the validation accuracy the live parameters have
    best_params,      \* the file best_params.jl: [saved, ps]
    savedAcc,         \* the validation accuracy the saved parameters have
    epoch_i,          \* the loop variable i of train()
    batch_i,          \* the number of batches consumed in the current epoch
    evals,            \* history: one record per call of log()
    feeds,            \* history: <<graph, batch size>> of every batch fed to a graph
    submission,       \* the rows of the submission file
    attn,             \* the attention kernel: [stage, n, w, out, sm]
    roc,              \* the encoded examples: [stage, n_ctx, X, max_len, clf_token, len, xmb, mmb, pool_idx]
    init_params       \* train()'s list init_params once the embeddings are merged

vars == <<pc, params, data, pre, n_vocab, n_train, n_valid, n_batch_train,
          n_updates_total, n_updates, n_epochs, best_score, live, liveAcc,
          best_params, savedAcc, epoch_i, batch_i, evals, feeds, submission, attn,
          init_params, roc>>

(***************************************************************************)
(* Bounds of the model.                                                    *)
(***************************************************************************)
MaxIter == 2
MaxTrain == 4
MaxValid == 2
MaxTest == 4
MaxBatch == 2
MaxGpu == 2
MaxLayer == 2
MaxDepth == 3
MaxPreCtx == 7
NVocab == 2
MaxN == 3

(***************************************************************************)
(* Program constants.                                                      *)
(***************************************************************************)
n_special == 3
TensorsPerBlock == 12
MaskValue == -1000000000

Min(a, b) == IF a < b THEN a ELSE b
Max(a, b) == IF a > b THEN a ELSE b

\* Python's s[:n]: a negative n counts from the end.
PySlice(s, n) ==
    LET k == IF n < 0 THEN Max(Len(s) + n, 0) ELSE Min(n, Len(s))
    IN  SubSeq(s, 1, k)

\* Python's zip(a, b): stops at the shorter sequence.
Zip(a, b) == [i \in 1..Min(Len(a), Len(b)) |-> <<a[i], b[i]>>]

Range(s) == {s[i] : i \in DOMAIN s}

RECURSIVE Flatten(_)
Flatten(ss) == IF ss = <<>> THEN <<>> ELSE Head(ss) \o Flatten(Tail(ss))

(***************************************************************************)
(* The graph: configuration look-ups and the trainable variables.          *)
(***************************************************************************)
act_fns == {"relu", "swish", "gelu"}

lr_schedules == {"warmup_cosine", "warmup_linear", "warmup_constant"}

\* Model.attn: assert n_state % n_head == 0, with n_state = n_embd.
AttnAssertFails(p) == p.n_embd % p.n_head # 0

\* Model.mlp: act_fns[self.params["afn"]] raises KeyError on an unknown name.
MlpLookupFails(p) == p.afn \notin act_fns

\* Model.model: block() is entered once per layer, so only when n_layer > 0.
ModelFails(p) == p.n_layer > 0 /\ (AttnAssertFails(p) \/ MlpLookupFails(p))

\* Model.mgpu_train: the replicas' model(), then lr_schedules[...] for adam.
MgpuTrainFails(p) == ModelFails(p) \/ p.lr_schedule \notin lr_schedules

\* The shapes of the 12 variables block() creates, in creation order:
\* attn/c_attn w,b; attn/c_proj w,b; ln_1 g,b; mlp/c_fc w,b; mlp/c_proj w,b; ln_2 g,b.
BlockShapes(e) ==
    << <<1, e, 3 * e>>, <<3 * e>>, <<1, e, e>>, <<e>>, <<e>>, <<e>>,
       <<1, e, 4 * e>>, <<4 * e>>, <<1, 4 * e, e>>, <<e>>, <<e>>, <<e>> >>

\* The shapes of find_trainable_variables('model'): we, the blocks, clf w,b.
TargetShapes(p, nv) ==
    << <<nv + n_special + p.n_ctx, p.n_embd>> >>
    \o Flatten([l \in 1..p.n_layer |-> BlockShapes(p.n_embd)])
    \o << <<p.n_embd, 1>>, <<1>> >>

\* sess.run(tf.global_variables_initializer()): every variable gets its fresh value.
FreshValues(p, nv) == [i \in 1..Len(TargetShapes(p, nv)) |-> << <<"init", i>> >>]

(***************************************************************************)
(* The pretrained checkpoint and its transfer.                             *)
(***************************************************************************)
\* model/params_shapes.json and model/params_*.npy, split and reshaped:
\* tensor 1 is the position embedding, tensor 2 the token embedding, then the blocks.
LoadPretrained(c) ==
    LET shapes == << <<c.n_ctx, c.n_embd>>, <<c.n_vocab, c.n_embd>> >>
                  \o Flatten([l \in 1..c.n_layer |-> BlockShapes(c.n_embd)])
    IN  [i \in 1..Len(shapes) |->
            [shape |-> shapes[i],
             val   |-> IF i = 1 THEN [j \in 1..c.n_ctx |-> <<"pos", j>>]
                       ELSE IF i = 2 THEN [j \in 1..c.n_vocab |-> <<"tok", j>>]
                       ELSE << <<"pre", i>> >>]]

\* np.concatenate([...], 0) needs the same number of columns in every part.
MergeFails(ips, p) ==
    ips[2].shape[2] # p.n_embd \/ ips[1].shape[2] # p.n_embd

\* Mutant of MergedTable: the position rows are not cut to n_ctx.
MergedTableUncut(ips, p) ==
    LET rows == ips[2].val \o [k \in 1..n_special |-> <<"rand", k>>] \o ips[1].val
    IN  [shape |-> <<Len(rows), ips[2].shape[2]>>, val |-> rows]

\* init_params[0] = init_params[0][:n_ctx]; init_params[0] = concatenate([init_params[1],
\* randn(n_special, n_embd), init_params[0]], 0)
MergedTable(ips, p) ==
    LET pos  == PySlice(ips[1].val, p.n_ctx)
        rows == ips[2].val \o [k \in 1..n_special |-> <<"rand", k>>] \o pos
    IN  [shape |-> <<Len(rows), ips[2].shape[2]>>, val |-> rows]

\* ... ; del init_params[1]
MergeEmbeddings(ips, p) ==
    <<MergedTable(ips, p)>> \o SubSeq(ips, 3, Len(ips))

\* if n_transfer == -1: n_transfer = 0 else: n_transfer = 1 + n_transfer * 12
NTransfer(d) == IF d = -1 THEN 0 ELSE 1 + d * TensorsPerBlock

\* zip(params[:n_transfer], init_params[:n_transfer]): indices of the pairs assigned.
TransferPairs(shapes, ips, nt) ==
    DOMAIN Zip(PySlice(shapes, nt), PySlice(ips, nt))

\* p.assign(ip) raises ValueError when the shapes differ.
AssignFails(shapes, ips, nt) ==
    \E i \in TransferPairs(shapes, ips, nt) : shapes[i] # ips[i].shape

\* sess.run([p.assign(ip) for p, ip in zip(...)])
AssignPrefix(cur, shapes, ips, nt) ==
    [i \in DOMAIN cur |->
        IF i \in TransferPairs(shapes, ips, nt) THEN ips[i].val ELSE cur[i]]

(***************************************************************************)
(* Batching.                                                               *)
(***************************************************************************)
\* utils.iter_data over a dataset of n examples (numbered 1..n): consecutive slices of
\* n_batch examples; truncate drops the partial final slice, otherwise it is yielded.
IterData(n, n_batch, truncate) ==
    LET nn == IF truncate THEN (n \div n_batch) * n_batch ELSE n
    IN  [k \in 1..((nn + n_batch - 1) \div n_batch) |->
            [j \in 1..(Min(k * n_batch, nn) - (k - 1) * n_batch) |-> (k - 1) * n_batch + j]]

\* Mutant of TrainTruncate: the partial final batch is kept.
TrainKeepPartial == FALSE

\* train(): iter_data(*shuffle(trX, trM, trYt), n_batch=n_batch_train, truncate=True)
TrainTruncate == TRUE

\* The batches one epoch of train() feeds to the optimizer step (positions in the
\* shuffled training set).
TrainBatches == IterData(n_train, n_batch_train, TrainTruncate)

\* Mutant of IterApplyGraph: any batch the devices can share goes to the multi-device graph.
IterApplyGraphDivisible(n) == IF n % params.n_gpu = 0 THEN "eval_mgpu" ELSE "eval"

\* iter_apply: a batch of n examples runs on the multi-device graph iff n == n_batch_train.
IterApplyGraph(n) == IF n = n_batch_train THEN "eval_mgpu" ELSE "eval"

\* iter_apply over a set of n examples: the <<graph, size>> of every batch it feeds.
IterApplyFeeds(n) ==
    {<<IterApplyGraph(Len(b)), Len(b)>> : b \in Range(IterData(n, n_batch_train, FALSE))}

\* log(): tr_logits, tr_cost = self.iter_apply(...) cannot unpack the empty list that
\* iter_apply returns when it was given no example.
IterApplyFails(n) == n = 0

\* tf.split(x, n_gpu, 0): n_gpu consecutive shards of equal size.
Split(x, k) ==
    LET m == Len(x) \div k IN [g \in 1..k |-> SubSeq(x, (g - 1) * m + 1, g * m)]

\* model(...)'s clf_logits: one row per example, in the order of the examples.
ModelLogits(xs) == [i \in DOMAIN xs |-> <<"logit", xs[i]>>]

\* mgpu_predict: ops = [tf.concat(op, 0) for op in zip(*gpu_ops)], shards in device order.
MgpuPredict(xs, n_gpu) ==
    LET shards == Split(xs, n_gpu)
    IN  Flatten([g \in 1..n_gpu |-> ModelLogits(shards[g])])

\* iter_predict: a batch of n examples runs on the multi-device graph iff n == n_batch_train.
IterPredictGraph(n) == IF n = n_batch_train THEN "eval_mgpu" ELSE "eval"

\* iter_predict: logits = np.concatenate(logits, 0), batches in batch order.
IterPredict(n, n_gpu) ==
    LET batches == IterData(n, n_batch_train, FALSE)
    IN  Flatten([k \in DOMAIN batches |->
                    IF IterPredictGraph(Len(batches[k])) = "eval_mgpu"
                    THEN MgpuPredict(batches[k], n_gpu)
                    ELSE ModelLogits(batches[k])])

IterPredictFeeds(n) ==
    {<<IterPredictGraph(Len(b)), Len(b)>> : b \in Range(IterData(n, n_batch_train, FALSE))}

\* np.concatenate of an empty list raises ValueError.
IterPredictFails(n) == IterData(n, n_batch_train, FALSE) = <<>>

\* predict(): for i, prediction in enumerate(predictions): write i, prediction
SubmissionRows(logits) ==
    [i \in DOMAIN logits |-> [index |-> i - 1, prediction |-> <<"argmax", logits[i][2]>>]]

(***************************************************************************)
(* Checkpointing.                                                          *)
(***************************************************************************)
\* Model.save: joblib.dump(sess.run(params), path), overwriting the file.
Save(ps) == [saved |-> TRUE, ps |-> ps]

\* Mutant of Restore: the saved parameters are not assigned.
RestoreNothing(cur, file) == cur

\* [p.assign(ip) for p, ip in zip(params, joblib.load(path))]
Restore(cur, file) ==
    [i \in DOMAIN cur |-> IF i \in DOMAIN Zip(cur, file.ps) THEN file.ps[i] ELSE cur[i]]

\* Mutant of NewBest: an equal score counts as a new best.
NewBestOrEqual(score, best) == score >= best

\* log(): if score > self.best_score
NewBest(score, best) == score > best

\* train(): the update counts at which the first epoch evaluates mid-epoch.
LogPoints == {1000, 2000, 4000, 8000, 16000, 32000}

\* Mutant of MidEpochLog: the evaluation points count in every epoch.
MidEpochLogAnyEpoch(nu, ne) == nu \in LogPoints

\* train(): if self.n_updates in [...] and self.n_epochs == 0
MidEpochLog(nu, ne) == nu \in LogPoints /\ ne = 0

\* The state after self.log(params), called with n_epochs = ne and n_updates = nu on the
\* live parameters ps of validation accuracy acc; fd are the batches fed before the call.
Log(ne, nu, ps, acc, fd) ==
    IF IterApplyFails(Min(n_train, n_valid)) \/ IterApplyFails(n_valid)
    THEN /\ pc' = "failed:log"
         /\ feeds' = fd
         /\ UNCHANGED <<best_score, best_params, savedAcc, evals>>
    ELSE /\ pc' = pc
         /\ feeds' = fd \cup IterApplyFeeds(Min(n_train, n_valid)) \cup IterApplyFeeds(n_valid)
         /\ evals' = Append(evals, [n_epochs |-> ne, n_updates |-> nu, va_acc |-> acc, ps |-> ps])
         /\ IF NewBest(acc, best_score)
            THEN /\ best_score' = acc
                 /\ best_params' = Save(ps)
                 /\ savedAcc' = acc
            ELSE UNCHANGED <<best_score, best_params, savedAcc>>

(***************************************************************************)
(* The inputs of a run: the command line, the dataset, the checkpoint.     *)
(***************************************************************************)
AccSet == {0, 50, 100}

AfnNames == act_fns \cup {"tanh"}

ScheduleNames == lr_schedules \cup {"warmup_exp"}

BaseParams ==
    [n_iter |-> 1, n_batch |-> 1, n_gpu |-> 2, n_ctx |-> 8, n_embd |-> 4, n_head |-> 2,
     n_layer |-> 1, afn |-> "gelu", lr_schedule |-> "warmup_linear", n_transfer |-> 1]

BaseData == [n_train |-> 3, n_valid |-> 2, n_test |-> 3, n_vocab |-> NVocab, lens |-> <<2, 1, 1>>]

BasePre == [n_ctx |-> 6, n_vocab |-> NVocab, n_embd |-> 4, n_layer |-> 1]

\* Runs that differ in the size of the training loop.
TrainInputs ==
    {[params |-> [BaseParams EXCEPT !.n_iter = it, !.n_batch = b, !.n_gpu = g],
      data   |-> [BaseData EXCEPT !.n_train = tr, !.n_valid = va],
      pre    |-> BasePre] :
        it \in 0..MaxIter, b \in 1..MaxBatch, g \in 1..MaxGpu,
        tr \in 0..MaxTrain, va \in 0..MaxValid}

\* Runs that differ in the configuration names and sizes the graph depends on.
ConfigInputs ==
    {[params |-> [BaseParams EXCEPT !.afn = a[1], !.lr_schedule = a[2], !.n_embd = e,
                                    !.n_head = h, !.n_layer = l, !.n_transfer = d],
      data   |-> BaseData,
      pre    |-> [BasePre EXCEPT !.n_embd = e]] :
        a \in AfnNames \X ScheduleNames, e \in {4, 6}, h \in 1..3,
        l \in 0..MaxLayer, d \in {-1, 0, 1}}

\* Runs that differ in the pretrained checkpoint and the transfer depth.
TransferInputs ==
    {[params |-> [BaseParams EXCEPT !.n_layer = l, !.n_transfer = d, !.n_ctx = c[1]],
      data   |-> BaseData,
      pre    |-> [n_ctx |-> c[2], n_vocab |-> v[1], n_embd |-> v[2], n_layer |-> pl]] :
        l \in 0..MaxLayer, d \in -1..MaxDepth, pl \in 0..MaxLayer,
        c \in {6, 8} \X ((MaxPreCtx - 3)..MaxPreCtx),
        v \in {NVocab, NVocab + 1} \X {4, 6}}

\* Runs that differ in the size of the test set and of the batches.
PredictInputs ==
    {[params |-> [BaseParams EXCEPT !.n_batch = b, !.n_gpu = g],
      data   |-> [BaseData EXCEPT !.n_test = te],
      pre    |-> BasePre] :
        b \in 1..MaxBatch, g \in 1..MaxGpu, te \in 0..MaxTest}

Inputs == TrainInputs \cup ConfigInputs \cup TransferInputs \cup PredictInputs

AttnIdle == [stage |-> "idle", n |-> 0, w |-> <<>>, out |-> <<>>, sm |-> <<>>]

RocIdle == [stage |-> "idle"]

Failed == pc \in {"failed:data_prep", "failed:graph", "failed:transfer", "failed:log",
                  "failed:reload", "failed:predict"}

\* Model.__init__
Init ==
    /\ \E in \in Inputs : params = in.params /\ data = in.data /\ pre = in.pre
    /\ pc = "init"
    /\ n_vocab = 0 /\ n_train = 0 /\ n_valid = 0
    /\ n_batch_train = 0 /\ n_updates_total = 0
    /\ best_score = 0 /\ n_updates = 0 /\ n_epochs = 0
    /\ live = <<>> /\ liveAcc = 0
    /\ best_params = [saved |-> FALSE, ps |-> <<>>] /\ savedAcc = 0
    /\ epoch_i = 0 /\ batch_i = 0
    /\ evals = <<>> /\ feeds = {} /\ submission = [header |-> <<>>, rows |-> <<>>]
    /\ attn = AttnIdle
    /\ init_params = <<>>
    /\ roc = RocIdle

(***************************************************************************)
(* The steps of a run.                                                     *)
(***************************************************************************)
\* len(x[:max_len]) for a list of l tokens.
CutLen(l, max_len) == IF max_len < 0 THEN Max(l + max_len, 0) ELSE Min(l, max_len)

\* data_prep: the shrunk context length, min(temp + 3, n_ctx).
ShrunkCtx(n_ctx, lens) ==
    LET max_len == n_ctx \div 2 - 2
        temp    == CutLen(lens[1], max_len)
                   + Max(CutLen(lens[2], max_len), CutLen(lens[3], max_len))
    IN  Min(temp + 3, n_ctx)

\* Model.data_prep
DataPrep ==
    /\ pc = "init"
    /\ n_vocab' = data.n_vocab
    /\ IF data.n_train + data.n_valid + data.n_test = 0
       THEN /\ pc' = "failed:data_prep"
            /\ UNCHANGED <<params, n_train, n_valid, n_batch_train, n_updates_total>>
       ELSE /\ params' = [params EXCEPT !.n_ctx = ShrunkCtx(params.n_ctx, data.lens)]
            /\ n_train' = data.n_train
            /\ n_valid' = data.n_valid
            /\ n_batch_train' = params.n_batch * params.n_gpu
            /\ IF params.n_batch * params.n_gpu = 0
               THEN pc' = "failed:data_prep" /\ UNCHANGED n_updates_total
               ELSE /\ pc' = "prepared"
                    /\ n_updates_total' =
                           (data.n_train \div (params.n_batch * params.n_gpu)) * params.n_iter
    /\ UNCHANGED <<data, pre, n_updates, n_epochs, best_score, live, liveAcc, best_params,
                   savedAcc, epoch_i, batch_i, evals, feeds, submission, attn,
                   init_params, roc>>

\* train(), lines 438-442: build the training graph, initialise the variables.
BuildGraph ==
    /\ pc = "prepared"
    /\ IF MgpuTrainFails(params)
       THEN pc' = "failed:graph" /\ UNCHANGED live
       ELSE pc' = "built" /\ live' = FreshValues(params, n_vocab)
    /\ UNCHANGED <<params, data, pre, n_vocab, n_train, n_valid, n_batch_train,
                   n_updates_total, n_updates, n_epochs, best_score, liveAcc, best_params,
                   savedAcc, epoch_i, batch_i, evals, feeds, submission, attn,
                   init_params, roc>>

\* train(), lines 444-461: load the checkpoint, merge the embeddings, assign the prefix.
Transfer ==
    /\ pc = "built"
    /\ LET loaded == LoadPretrained(pre)
           shapes == TargetShapes(params, n_vocab)
           nt     == NTransfer(params.n_transfer)
       IN  IF MergeFails(loaded, params)
           THEN pc' = "failed:transfer" /\ UNCHANGED <<params, live, liveAcc, init_params>>
           ELSE /\ params' = [params EXCEPT !.n_transfer = nt]
                /\ init_params' = MergeEmbeddings(loaded, params)
                /\ IF AssignFails(shapes, MergeEmbeddings(loaded, params), nt)
                   THEN pc' = "failed:transfer" /\ UNCHANGED <<live, liveAcc>>
                   ELSE /\ pc' = "transferred"
                        /\ live' = AssignPrefix(live, shapes, MergeEmbeddings(loaded, params), nt)
                        /\ liveAcc' \in AccSet
    /\ UNCHANGED <<data, pre, n_vocab, n_train, n_valid, n_batch_train, n_updates_total,
                   n_updates, n_epochs, best_score, best_params, savedAcc, epoch_i, batch_i,
                   evals, feeds, submission, attn, roc>>

\* Mutant of SaveInitial: the loop is entered without saving the parameters.
SaveInitialSkipped ==
    /\ pc = "transferred"
    /\ pc' = "loop"
    /\ UNCHANGED <<params, data, pre, n_vocab, n_train, n_valid, n_batch_train,
                   n_updates_total, n_updates, n_epochs, best_score, live, liveAcc,
                   best_params, savedAcc, epoch_i, batch_i, evals, feeds, submission, attn,
                   init_params, roc>>

\* train(), lines 463-478: build the evaluation graphs, save the parameters.
SaveInitial ==
    /\ pc = "transferred"
    /\ pc' = "loop"
    /\ best_params' = Save(live)
    /\ savedAcc' = liveAcc
    /\ UNCHANGED <<params, data, pre, n_vocab, n_train, n_valid, n_batch_train,
                   n_updates_total, n_updates, n_epochs, best_score, live, liveAcc,
                   epoch_i, batch_i, evals, feeds, submission, attn,
                   init_params, roc>>

\* The parameters after the optimizer step that is update number nu.
Updated(ps, nu) == [i \in DOMAIN ps |-> << <<"upd", nu>> >>]

\* train(): the two loops have another batch, have finished an epoch, have finished.
MoreBatches == pc = "loop" /\ epoch_i < params.n_iter /\ batch_i < Len(TrainBatches)

EpochOver == pc = "loop" /\ epoch_i < params.n_iter /\ batch_i = Len(TrainBatches)

LoopOver == pc = "loop" /\ epoch_i = params.n_iter

\* train(), lines 485-488: one optimizer step, and the mid-epoch evaluation.
TrainStep ==
    /\ MoreBatches
    /\ \E a \in AccSet :
          LET nu == n_updates + 1
              ps == Updated(live, nu)
              fd == feeds \cup {<<"train", Len(TrainBatches[batch_i + 1])>>}
          IN  /\ live' = ps
              /\ liveAcc' = a
              /\ n_updates' = nu
              /\ batch_i' = batch_i + 1
              /\ IF MidEpochLog(nu, n_epochs)
                 THEN Log(n_epochs, nu, ps, a, fd)
                 ELSE /\ pc' = pc
                      /\ feeds' = fd
                      /\ UNCHANGED <<best_score, best_params, savedAcc, evals>>
    /\ UNCHANGED <<params, data, pre, n_vocab, n_train, n_valid, n_batch_train,
                   n_updates_total, n_epochs, epoch_i, submission, attn,
                   init_params, roc>>

\* train(), lines 489-490: the end of an epoch.
EpochEnd ==
    /\ EpochOver
    /\ n_epochs' = n_epochs + 1
    /\ Log(n_epochs + 1, n_updates, live, liveAcc, feeds)
    /\ epoch_i' = epoch_i + 1
    /\ batch_i' = 0
    /\ UNCHANGED <<params, data, pre, n_vocab, n_train, n_valid, n_batch_train,
                   n_updates_total, n_updates, live, liveAcc, submission, attn,
                   init_params, roc>>

\* train(), lines 492-494: reload the saved parameters.
Reload ==
    /\ LoopOver
    /\ IF best_params.saved
       THEN pc' = "trained" /\ live' = Restore(live, best_params) /\ liveAcc' = savedAcc
       ELSE pc' = "failed:reload" /\ UNCHANGED <<live, liveAcc>>
    /\ UNCHANGED <<params, data, pre, n_vocab, n_train, n_valid, n_batch_train,
                   n_updates_total, n_updates, n_epochs, best_score, best_params, savedAcc,
                   epoch_i, batch_i, evals, feeds, submission, attn,
                   init_params, roc>>

\* predict(): the header line, then the rows.
SubmissionFile(logits) ==
    [header |-> <<"index", "prediction">>, rows |-> SubmissionRows(logits)]

\* Model.predict
Predict ==
    /\ pc = "trained"
    /\ IF IterPredictFails(data.n_test)
       THEN pc' = "failed:predict" /\ UNCHANGED <<feeds, submission>>
       ELSE /\ pc' = "done"
            /\ feeds' = feeds \cup IterPredictFeeds(data.n_test)
            /\ submission' = SubmissionFile(IterPredict(data.n_test, params.n_gpu))
    /\ UNCHANGED <<params, data, pre, n_vocab, n_train, n_valid, n_batch_train,
                   n_updates_total, n_updates, n_epochs, best_score, live, liveAcc,
                   best_params, savedAcc, epoch_i, batch_i, evals, attn,
                   init_params, roc>>

Next ==
    \/ DataPrep
    \/ BuildGraph
    \/ Transfer
    \/ SaveInitial
    \/ TrainStep
    \/ EpochEnd
    \/ Reload
    \/ Predict

Spec == Init /\ [][Next]_vars

(***************************************************************************)
(* The attention kernel.  A float is [k, v]: k says whether it is finite    *)
(* ("fin", with the value v), an infinity ("inf", "ninf") or a NaN ("nan"). *)
(***************************************************************************)
Fin(x) == [k |-> "fin", v |-> x]

PosInf == [k |-> "inf", v |-> 0]

NegInf == [k |-> "ninf", v |-> 0]

NaN == [k |-> "nan", v |-> 0]

\* The float negation, product, sum and difference.
FNeg(a) ==
    CASE a.k = "fin"  -> Fin(0 - a.v)
      [] a.k = "inf"  -> NegInf
      [] a.k = "ninf" -> PosInf
      [] OTHER        -> NaN

FMul(a, b) ==
    IF a.k = "nan" \/ b.k = "nan" THEN NaN
    ELSE IF a.k = "fin" /\ b.k = "fin" THEN Fin(a.v * b.v)
    ELSE IF (a.k = "fin" /\ a.v = 0) \/ (b.k = "fin" /\ b.v = 0) THEN NaN
    ELSE LET neg(x) == x.k = "ninf" \/ (x.k = "fin" /\ x.v < 0)
         IN  IF neg(a) = neg(b) THEN PosInf ELSE NegInf

FAdd(a, b) ==
    IF a.k = "nan" \/ b.k = "nan" THEN NaN
    ELSE IF a.k = "fin" /\ b.k = "fin" THEN Fin(a.v + b.v)
    ELSE IF a.k = "fin" THEN b
    ELSE IF b.k = "fin" THEN a
    ELSE IF a.k = b.k THEN a ELSE NaN

FSub(a, b) == FAdd(a, FNeg(b))

\* tf.matrix_band_part(tf.ones([n, n]), -1, 0): the lower triangle, diagonal included.
Band(n) == [i \in 1..n |-> [j \in 1..n |-> IF j <= i THEN Fin(1) ELSE Fin(0)]]

\* mask_attn_weights: w*b + -1e9*(1-b)
mask_attn_weights(w) ==
    LET n == Len(w)
        b == Band(n)
    IN  [i \in 1..n |-> [j \in 1..n |->
            FAdd(FMul(w[i][j], b[i][j]), FMul(Fin(MaskValue), FSub(Fin(1), b[i][j])))]]

\* float32: exp(x) is 0 for x <= -ExpUnderflow.
ExpUnderflow == 104

\* tf.nn.softmax over one row, exp(x - max) / sum: whether each weight is positive
\* ("pos"), exactly zero ("zero") or NaN ("nan").
SoftmaxRow(r) ==
    LET n      == Len(r)
        finite == {j \in 1..n : r[j].k = "fin"}
        m      == CHOOSE x \in {r[j].v : j \in finite} : \A j \in finite : r[j].v <= x
    IN  IF (\E j \in 1..n : r[j].k \in {"nan", "inf"}) \/ finite = {}
        THEN [j \in 1..n |-> "nan"]
        ELSE [j \in 1..n |->
                 IF r[j].k = "ninf" \/ m - r[j].v >= ExpUnderflow THEN "zero" ELSE "pos"]

\* The logits the kernel is tried on.
FVals == {Fin(0), Fin(3), Fin(-7), Fin(2 * MaskValue), PosInf, NegInf, NaN}

\* The n x n matrix that is u everywhere but v at <<i0, j0>>.
Matrix(n, u, v, i0, j0) ==
    [i \in 1..n |-> [j \in 1..n |-> IF i = i0 /\ j = j0 THEN v ELSE u]]

InitMask ==
    /\ \E n \in 1..MaxN, u \in FVals, v \in FVals :
          \E i0 \in 1..n, j0 \in 1..n :
              attn = [stage |-> "logits", n |-> n, w |-> Matrix(n, u, v, i0, j0),
                      out |-> <<>>, sm |-> <<>>]
    /\ pc = "kernel"
    /\ params = BaseParams /\ data = BaseData /\ pre = BasePre
    /\ n_vocab = 0 /\ n_train = 0 /\ n_valid = 0
    /\ n_batch_train = 0 /\ n_updates_total = 0
    /\ best_score = 0 /\ n_updates = 0 /\ n_epochs = 0
    /\ live = <<>> /\ liveAcc = 0
    /\ best_params = [saved |-> FALSE, ps |-> <<>>] /\ savedAcc = 0
    /\ epoch_i = 0 /\ batch_i = 0
    /\ evals = <<>> /\ feeds = {} /\ submission = [header |-> <<>>, rows |-> <<>>]
    /\ init_params = <<>>
    /\ roc = RocIdle

\* _attn: w = mask_attn_weights(w)
MaskAttnWeights ==
    /\ attn.stage = "logits"
    /\ attn' = [attn EXCEPT !.stage = "masked", !.out = mask_attn_weights(attn.w)]
    /\ UNCHANGED <<pc, params, data, pre, n_vocab, n_train, n_valid, n_batch_train,
                   n_updates_total, n_updates, n_epochs, best_score, live, liveAcc,
                   best_params, savedAcc, epoch_i, batch_i, evals, feeds, submission,
                   init_params, roc>>

\* _attn: w = tf.nn.softmax(w)
Softmax ==
    /\ attn.stage = "masked"
    /\ attn' = [attn EXCEPT !.stage = "softmax",
                            !.sm = [i \in 1..attn.n |-> SoftmaxRow(attn.out[i])]]
    /\ UNCHANGED <<pc, params, data, pre, n_vocab, n_train, n_valid, n_batch_train,
                   n_updates_total, n_updates, n_epochs, best_score, live, liveAcc,
                   best_params, savedAcc, epoch_i, batch_i, evals, feeds, submission,
                   init_params, roc>>

NextMask == MaskAttnWeights \/ Softmax

SpecMask == InitMask /\ [][NextMask]_vars

(***************************************************************************)
(* The encoding of the examples: data_prep's lines 404-421, transform_roc   *)
(* and the look-up of the classify token in model().  A token sequence is a *)
(* sequence of token ids; an example is <<x1, x2, x3>>, the context and the *)
(* two candidate endings.                                                   *)
(***************************************************************************)
MaxCtx == 8
MaxSeq == 3

\* Mutant of max_len: the special tokens are not accounted for.
max_len_half(n_ctx) == n_ctx \div 2

\* self.max_len = self.params["n_ctx"]//2-2
max_len(n_ctx) == n_ctx \div 2 - 2

\* self.encoder['_start_'], ['_delimiter_'], ['_classify_']: len(self.encoder) each time.
start(nv) == nv

delimiter(nv) == nv + 1

clf_token(nv) == nv + 2

\* transform_roc: x12 = [start] + x1[:max_len] + [delimiter] + x2[:max_len] + [clf_token]
Encode(x1, x2, ml, nv) ==
    <<start(nv)>> \o PySlice(x1, ml) \o <<delimiter(nv)>> \o PySlice(x2, ml) \o <<clf_token(nv)>>

SetMax(S) == CHOOSE x \in S : \A y \in S : y <= x

\* data_prep: temp, the longest context plus the longer of its two endings, over all examples.
Temp(X, ml) ==
    SetMax({Len(PySlice(X[i][1], ml))
            + Max(Len(PySlice(X[i][2], ml)), Len(PySlice(X[i][3], ml))) : i \in DOMAIN X})

\* xmb[i, c, :l, 0] = x on zeros, then xmb[:, :, :, 1] = np.arange(nv + n_special, ...):
\* slot k holds <<token, position id>>.
TokenRow(x, n_ctx, nv) ==
    [k \in 1..n_ctx |-> <<IF k <= Len(x) THEN x[k] ELSE 0, nv + n_special + k - 1>>]

\* mmb[i, c, :l] = 1 on zeros.
MaskRow(l, n_ctx) == [k \in 1..n_ctx |-> IF k <= l THEN 1 ELSE 0]

\* The two encoded sequences of every example.
Encoded(X, ml, nv) ==
    [i \in DOMAIN X |-> <<Encode(X[i][1], X[i][2], ml, nv), Encode(X[i][1], X[i][3], ml, nv)>>]

\* xmb[i, c, :l, 0] = x raises ValueError when the l tokens do not fit n_ctx slots.
TransformRocFails(X, n_ctx, ml, nv) ==
    \E i \in DOMAIN X, c \in 1..2 : Len(Encoded(X, ml, nv)[i][c]) > n_ctx

\* Model.transform_roc
transform_roc(X, n_ctx, ml, nv) ==
    LET xs == Encoded(X, ml, nv)
    IN  [len |-> [i \in DOMAIN X |-> [c \in 1..2 |-> Len(xs[i][c])]],
         xmb |-> [i \in DOMAIN X |-> [c \in 1..2 |-> TokenRow(xs[i][c], n_ctx, nv)]],
         mmb |-> [i \in DOMAIN X |-> [c \in 1..2 |-> MaskRow(Len(xs[i][c]), n_ctx)]]]

\* model(): tf.argmax(tf.equal(X[:, :, 0], clf_token), 1), the first slot holding the
\* classify token, slot 0 when there is none (slots counted from 0).
PoolIdx(row, clf) ==
    LET hits == {k \in DOMAIN row : row[k][1] = clf}
    IN  IF hits = {} THEN 0 ELSE (CHOOSE k \in hits : \A h \in hits : k <= h) - 1

\* The token sequence of l tokens the encoder delivers: ids below the vocabulary size.
Tokens(l, nv) == [k \in 1..l |-> (k - 1) % nv]

InitRoc ==
    /\ \E n_ctx \in 1..MaxCtx, a1 \in 0..MaxSeq, a2 \in 0..MaxSeq, a3 \in 0..MaxSeq,
          b1 \in 0..MaxSeq, b2 \in 0..MaxSeq :
          /\ params = [BaseParams EXCEPT !.n_ctx = n_ctx]
          /\ roc = [stage |-> "raw", n_ctx |-> n_ctx,
                    X |-> << <<Tokens(a1, NVocab), Tokens(a2, NVocab), Tokens(a3, NVocab)>>,
                             <<Tokens(b1, NVocab), Tokens(b2, NVocab), Tokens(b2, NVocab)>> >>]
    /\ pc = "encode"
    /\ data = BaseData /\ pre = BasePre
    /\ n_vocab = 0 /\ n_train = 0 /\ n_valid = 0
    /\ n_batch_train = 0 /\ n_updates_total = 0
    /\ best_score = 0 /\ n_updates = 0 /\ n_epochs = 0
    /\ live = <<>> /\ liveAcc = 0
    /\ best_params = [saved |-> FALSE, ps |-> <<>>] /\ savedAcc = 0
    /\ epoch_i = 0 /\ batch_i = 0
    /\ evals = <<>> /\ feeds = {} /\ submission = [header |-> <<>>, rows |-> <<>>]
    /\ attn = AttnIdle
    /\ init_params = <<>>

\* data_prep, lines 404-421: the special tokens, max_len, the shrunk n_ctx, transform_roc.
DataPrepEncode ==
    /\ roc.stage = "raw"
    /\ LET nv == data.n_vocab
           ml == max_len(params.n_ctx)
           nc == Min(Temp(roc.X, ml) + 3, params.n_ctx)
       IN  /\ n_vocab' = nv
           /\ params' = [params EXCEPT !.n_ctx = nc]
           /\ IF TransformRocFails(roc.X, nc, ml, nv)
              THEN roc' = [stage |-> "failed", n_ctx |-> roc.n_ctx, X |-> roc.X]
              ELSE roc' = [stage |-> "built", n_ctx |-> roc.n_ctx, X |-> roc.X,
                           max_len |-> ml, clf_token |-> clf_token(nv),
                           len |-> transform_roc(roc.X, nc, ml, nv).len,
                           xmb |-> transform_roc(roc.X, nc, ml, nv).xmb,
                           mmb |-> transform_roc(roc.X, nc, ml, nv).mmb]
    /\ UNCHANGED <<pc, data, pre, n_train, n_valid, n_batch_train,
                   n_updates_total, n_updates, n_epochs, best_score, live, liveAcc,
                   best_params, savedAcc, epoch_i, batch_i, evals, feeds, submission,
                   attn, init_params>>

\* model(): pool_idx, the slot whose hidden state feeds the classification head.
ClfLookup ==
    /\ roc.stage = "built"
    /\ roc' = [stage |-> "pooled", n_ctx |-> roc.n_ctx, X |-> roc.X,
               max_len |-> roc.max_len, clf_token |-> roc.clf_token,
               len |-> roc.len, xmb |-> roc.xmb, mmb |-> roc.mmb,
               pool_idx |-> [i \in DOMAIN roc.xmb |->
                                [c \in 1..2 |-> PoolIdx(roc.xmb[i][c], roc.clf_token)]]]
    /\ UNCHANGED <<pc, params, data, pre, n_vocab, n_train, n_valid, n_batch_train,
                   n_updates_total, n_updates, n_epochs, best_score, live, liveAcc,
                   best_params, savedAcc, epoch_i, batch_i, evals, feeds, submission,
                   attn, init_params>>

NextRoc == DataPrepEncode \/ ClfLookup

SpecRoc == InitRoc /\ [][NextRoc]_vars

(***************************************************************************)
(* Long runs: a training set large enough for the update count to reach the *)
(* first mid-epoch evaluation point in the first epoch and to pass the      *)
(* second one in the second epoch.                                          *)
(***************************************************************************)
LongTrain == 1001

\* Runs of two epochs over LongTrain - 1 or LongTrain examples, one example per batch.
LongInputs ==
    {[params |-> [BaseParams EXCEPT !.n_iter = 2, !.n_batch = 1, !.n_gpu = 1],
      data   |-> [BaseData EXCEPT !.n_train = tr, !.n_valid = 1, !.n_test = 1],
      pre    |-> BasePre] : tr \in (LongTrain - 1)..LongTrain}

\* Model.__init__
InitLong ==
    /\ \E in \in LongInputs \cup TrainInputs :
          params = in.params /\ data = in.data /\ pre = in.pre
    /\ pc = "init"
    /\ n_vocab = 0 /\ n_train = 0 /\ n_valid = 0
    /\ n_batch_train = 0 /\ n_updates_total = 0
    /\ best_score = 0 /\ n_updates = 0 /\ n_epochs = 0
    /\ live = <<>> /\ liveAcc = 0
    /\ best_params = [saved |-> FALSE, ps |-> <<>>] /\ savedAcc = 0
    /\ epoch_i = 0 /\ batch_i = 0
    /\ evals = <<>> /\ feeds = {} /\ submission = [header |-> <<>>, rows |-> <<>>]
    /\ attn = AttnIdle
    /\ init_params = <<>>
    /\ roc = RocIdle

SpecLong == InitLong /\ [][Next]_vars

(***************************************************************************)
(* Claims.                                                                 *)
(***************************************************************************)
\* train() has returned.
TrainReturned == pc \in {"trained", "done", "failed:predict"}

\* The highest validation accuracy of a non-empty history of evaluations.
MaxAcc(evs) == CHOOSE m \in {evs[k].va_acc : k \in DOMAIN evs} :
                   \A k \in DOMAIN evs : evs[k].va_acc <= m

\* The first evaluation that achieved it.
FirstBest(evs) == CHOOSE k \in DOMAIN evs :
                      /\ evs[k].va_acc = MaxAcc(evs)
                      /\ \A j \in 1..(k - 1) : evs[j].va_acc < MaxAcc(evs)

\* The parameters as the transfer left them, before any optimizer update.
PreTrainingParams ==
    AssignPrefix(FreshValues(params, n_vocab), TargetShapes(params, n_vocab),
                 init_params, params.n_transfer)

\* C1 as stated: after train() returns, the live parameters are the snapshot taken at an
\* evaluation that achieved the highest validation accuracy of the run.
C1_LiveIsBestEvaluation ==
    (TrainReturned /\ evals # <<>>) =>
        \E k \in DOMAIN evals : evals[k].va_acc = MaxAcc(evals) /\ live = evals[k].ps

\* C1 as amended: after train() returns, the live parameters are the snapshot taken at
\* the first evaluation that achieved the highest validation accuracy of the run when that
\* accuracy is above 0, and the post-transfer, pre-training parameters when no evaluation
\* scored above 0.
C1_LiveIsFirstBestAboveZero ==
    TrainReturned =>
        IF evals # <<>> /\ MaxAcc(evals) > 0
        THEN live = evals[FirstBest(evals)].ps
        ELSE live = PreTrainingParams

\* C1's case: two evaluations of different parameters, the earlier one better, and the
\* run ends on the earlier one's parameters.
C1_Witness ==
    /\ pc = "trained"
    /\ Len(evals) = 2
    /\ evals[1].va_acc > evals[2].va_acc
    /\ evals[1].ps # evals[2].ps
    /\ live = evals[1].ps

\* One step of the run, seen from the checkpoint: whether log() evaluated, and its score.
Logged == Len(evals') = Len(evals) + 1

LastEval == evals'[Len(evals')]

\* C2 as stated: the checkpoint is written, and best_score raised, by an evaluation whose
\* accuracy is strictly greater than best_score and by nothing else; best_score never
\* decreases and always equals the accuracy of the persisted snapshot.
C2_SavedOnlyOnNewBest ==
    [][/\ Logged =>
             IF LastEval.va_acc > best_score
             THEN best_score' = LastEval.va_acc /\ best_params' = Save(LastEval.ps)
             ELSE UNCHANGED <<best_score, best_params>>
       /\ ~Logged => UNCHANGED <<best_score, best_params>>
       /\ best_score' >= best_score
       /\ best_params'.saved => best_score' = savedAcc']_vars

\* C2 as amended: apart from the unconditional save of the pre-training parameters right
\* before the loop, which leaves best_score at 0, the checkpoint is written, and best_score
\* raised, by an evaluation whose accuracy is strictly greater than best_score and by
\* nothing else; best_score never decreases and, once above 0, equals the accuracy of the
\* persisted snapshot.
C2_SavedOnNewBestOrInitially ==
    [][/\ Logged =>
             IF LastEval.va_acc > best_score
             THEN best_score' = LastEval.va_acc /\ best_params' = Save(LastEval.ps)
             ELSE UNCHANGED <<best_score, best_params>>
       /\ ~Logged =>
             /\ UNCHANGED best_score
             /\ best_params' # best_params =>
                   pc = "transferred" /\ n_updates = 0 /\ best_params' = Save(live)
       /\ best_score' >= best_score
       /\ best_score' > 0 => best_params'.saved /\ best_score' = savedAcc']_vars

\* C2's case: a later evaluation of other parameters that did not beat best_score left the
\* checkpoint of the earlier one in place.
C2_Witness ==
    /\ Len(evals) = 2
    /\ evals[1].va_acc > 0
    /\ evals[2].va_acc <= evals[1].va_acc
    /\ evals[1].ps # evals[2].ps
    /\ best_params = Save(evals[1].ps)
    /\ best_score = evals[1].va_acc

\* C7: every batch fed to a multi-device graph (the training step or the evaluation) has
\* exactly n_batch*n_gpu examples and splits into n_gpu shards of n_batch examples; every
\* batch of another size is a shorter, non-empty final batch of an evaluation or prediction
\* pass and runs on the single-device graph; no such batch reaches the optimizer step.
C7_BatchRouting ==
    \A f \in feeds :
        LET full == params.n_batch * params.n_gpu
            xs   == [j \in 1..f[2] |-> j]
        IN  /\ f[1] \in {"train", "eval_mgpu", "eval"}
            /\ f[1] \in {"train", "eval_mgpu"} =>
                  /\ f[2] = full
                  /\ f[2] % params.n_gpu = 0
                  /\ \A g \in 1..params.n_gpu : Len(Split(xs, params.n_gpu)[g]) = params.n_batch
            /\ f[2] # full => f[1] = "eval" /\ 0 < f[2] /\ f[2] < full

\* C7's case: a training set and an evaluation set that do not divide into full batches,
\* on two devices; full batches went to both multi-device graphs, a partial one to the
\* single-device graph.
C7_Witness ==
    /\ pc = "done"
    /\ params.n_gpu = 2
    /\ n_train % n_batch_train # 0
    /\ n_valid % n_batch_train # 0
    /\ <<"train", n_batch_train>> \in feeds
    /\ <<"eval_mgpu", n_batch_train>> \in feeds
    /\ \E r \in 1..(n_batch_train - 1) : <<"eval", r>> \in feeds

\* The number of steps a run has left: the stages before and after the loop, and in the
\* loop one step per remaining batch and one per remaining end of epoch.
StepsLeft ==
    LET perEpoch == (data.n_train \div (params.n_batch * params.n_gpu)) + 1
        loop     == (params.n_iter - epoch_i) * perEpoch - batch_i
    IN  CASE pc = "init"        -> 6 + loop
          [] pc = "prepared"    -> 5 + loop
          [] pc = "built"       -> 4 + loop
          [] pc = "transferred" -> 3 + loop
          [] pc = "loop"        -> 2 + loop
          [] pc = "trained"     -> 1
          [] OTHER              -> 0

\* C9: every run of train() ends (it returns or raises) after a number of steps fixed by
\* n_iter and the number of full batches: a step is always possible in the loop, and every
\* step leaves fewer steps; when it returns, n_epochs is n_iter and n_updates
\* is n_iter * floor(n_train / (n_batch*n_gpu)), which is n_updates_total; every optimizer
\* step raises n_updates by exactly 1 and nothing else changes it; n_updates never exceeds
\* n_updates_total.
C9_TrainRunsNIterEpochs ==
    /\ [](TrainReturned =>
            /\ n_epochs = params.n_iter
            /\ n_updates = params.n_iter * (n_train \div (params.n_batch * params.n_gpu))
            /\ n_updates = n_updates_total)
    /\ [](n_updates <= n_updates_total)
    /\ [][/\ n_updates' # n_updates => n_updates' = n_updates + 1 /\ batch_i' = batch_i + 1
          /\ batch_i' = batch_i + 1 => n_updates' = n_updates + 1 /\ live' = Updated(live, n_updates')
         ]_vars
    /\ [](/\ StepsLeft >= 0
          /\ pc \in {"init", "prepared", "built", "transferred", "loop", "trained", "done"}
                \/ Failed
          /\ pc = "loop" => MoreBatches \/ EpochOver \/ LoopOver)
    /\ [][StepsLeft' < StepsLeft]_vars

\* C9's case: a returned run of two epochs over a training set with a partial final batch.
C9_Witness ==
    /\ pc = "trained"
    /\ params.n_iter = 2
    /\ n_train % n_batch_train # 0
    /\ n_train \div n_batch_train >= 1
    /\ n_updates = 2 * (n_train \div n_batch_train)
    /\ n_epochs = 2

\* The transfer has completed without raising.
TransferDone ==
    pc \in {"transferred", "loop", "trained", "done", "failed:log", "failed:reload",
            "failed:predict"}

\* C3 as stated: after the transfer, with n_transfer tensors selected (1 + 12*d for a depth
\* d >= 0, none for the sentinel -1), exactly the first n_transfer trainable parameters
\* hold the corresponding pretrained tensors and every later one its fresh value.
C3_ExactPrefixCopied ==
    pc = "transferred" =>
        /\ \A i \in 1..params.n_transfer :
              i \in DOMAIN live /\ i \in DOMAIN init_params /\ live[i] = init_params[i].val
        /\ \A i \in DOMAIN live : i > params.n_transfer => live[i] = << <<"init", i>> >>

\* The layout of the merged table: v token rows, n_special sampled rows, c position rows.
TableLayout(t, v, c) ==
    /\ Len(t) = v + n_special + c
    /\ \A r \in 1..Len(t) :
          t[r] = IF r <= v THEN <<"tok", r>>
                 ELSE IF r <= v + n_special THEN <<"rand", r - v>>
                 ELSE <<"pos", r - v - n_special>>

\* The transfer list is the loaded list without its token-embedding tensor.
TokensDropped ==
    LET loaded == LoadPretrained(pre)
    IN  /\ Len(init_params) = Len(loaded) - 1
        /\ \A i \in 2..Len(init_params) : init_params[i] = loaded[i + 1]

ConfigError(p) ==
    p.afn \notin act_fns \/ p.lr_schedule \notin lr_schedules \/ p.n_embd % p.n_head # 0

\* C5 as stated: a run with a configuration error gets no further than the construction
\* of the graph: no update, no checkpoint, no evaluation.
C5_ConfigErrorFailsAtGraph ==
    ConfigError(params) =>
        /\ pc \in {"init", "prepared", "failed:data_prep", "failed:graph"}
        /\ n_updates = 0
        /\ ~best_params.saved
        /\ evals = <<>>

\* C6 as stated: predict() ends with a file of one row per test example, row i holding
\* the index i and the prediction for example i of the test set.
C6_OneRowPerTestExample ==
    pc \in {"done", "failed:predict"} =>
        /\ pc = "done"
        /\ submission.header = <<"index", "prediction">>
        /\ Len(submission.rows) = data.n_test
        /\ \A i \in 1..data.n_test :
              submission.rows[i] = [index |-> i - 1, prediction |-> <<"argmax", i>>]

\* The checkpoint does not match the target for the tensors selected: more tensors
\* selected than the checkpoint or the target has, or a selected pair of unequal shapes.
SelectionMismatch ==
    LET shapes == TargetShapes(params, n_vocab)
    IN  \/ params.n_transfer > Len(init_params)
        \/ params.n_transfer > Len(shapes)
        \/ \E i \in 1..params.n_transfer :
              i \in DOMAIN shapes /\ i \in DOMAIN init_params
              /\ shapes[i] # init_params[i].shape

\* C8 as stated: a run whose checkpoint does not match the target for the tensors selected
\* fails at the transfer, so no run gets past it with such a mismatch.
C8_MismatchFailsAtTransfer == TransferDone => ~SelectionMismatch

\* C10: the masked logit at query i and key j is the input when j <= i and
\* -1e9 when j > i, whatever the input there, and after softmax no query puts weight on
\* a later key.
C10_MaskAnyInput ==
    /\ attn.stage \in {"masked", "softmax"} =>
          \A i \in 1..attn.n, j \in 1..attn.n :
              attn.out[i][j] = IF j <= i THEN attn.w[i][j] ELSE Fin(MaskValue)
    /\ attn.stage = "softmax" =>
          \A i \in 1..attn.n, j \in 1..attn.n : j > i => attn.sm[i][j] = "zero"

\* Query i's logits are all finite and its largest unmasked one is well above -1e9.
WellAboveMask(w, i) ==
    /\ \A j \in 1..Len(w) : w[i][j].k = "fin"
    /\ \E j \in 1..i : w[i][j].v - MaskValue >= ExpUnderflow

\* What the kernel does ensure: the masked logit at query i and key j is the input when
\* j <= i; when j > i it is -1e9 for every finite input there and NaN for an infinite or
\* NaN input; after softmax, a query whose logits are all finite and whose largest
\* unmasked logit is well above -1e9 puts no weight on a later key.
MaskFiniteInput ==
    /\ attn.stage \in {"masked", "softmax"} =>
          \A i \in 1..attn.n, j \in 1..attn.n :
              attn.out[i][j] = IF j <= i THEN attn.w[i][j]
                               ELSE IF attn.w[i][j].k = "fin" THEN Fin(MaskValue)
                               ELSE NaN
    /\ attn.stage = "softmax" =>
          \A i \in 1..attn.n, j \in 1..attn.n :
              (j > i /\ WellAboveMask(attn.w, i)) => attn.sm[i][j] = "zero"

\* A positive finite logit at a later key was replaced by -1e9 and got no weight, while
\* the query's own position kept its logit and got weight.
MaskedLaterKey ==
    /\ attn.stage = "softmax"
    /\ \E i \in 1..attn.n, j \in 1..attn.n :
          /\ j > i
          /\ attn.w[i][j] = Fin(3)
          /\ attn.out[i][j] = Fin(MaskValue)
          /\ attn.sm[i][j] = "zero"
          /\ attn.out[i][i] = attn.w[i][i]
          /\ attn.sm[i][i] = "pos"

\* C11: for a configured n_ctx >= 4 every example is encoded, and each of its sequences
\* start + x1[:max_len] + delimiter + x[:max_len] + classify has a length l with
\* 3 <= l <= the shrunk n_ctx, a mask that is 1 on exactly the slots 0..l-1, and the
\* classify token exactly once, at slot l-1, which is the slot the classification head
\* looks up and which the mask marks as real.
C11_EncodedSequences ==
    roc.stage # "idle" /\ roc.n_ctx >= 4 =>
        /\ roc.stage # "failed"
        /\ roc.stage \in {"built", "pooled"} =>
              \A i \in DOMAIN roc.X, c \in 1..2 :
                  LET l   == roc.len[i][c]
                      row == roc.xmb[i][c]
                      m   == roc.mmb[i][c]
                  IN  /\ 3 <= l /\ l <= params.n_ctx
                      /\ l = 3 + Min(Len(roc.X[i][1]), roc.n_ctx \div 2 - 2)
                               + Min(Len(roc.X[i][c + 1]), roc.n_ctx \div 2 - 2)
                      /\ Len(row) = params.n_ctx /\ Len(m) = params.n_ctx
                      /\ \A k \in 1..params.n_ctx : m[k] = IF k <= l THEN 1 ELSE 0
                      /\ {k \in 1..params.n_ctx : row[k][1] = roc.clf_token} = {l}
                      /\ roc.stage = "pooled" =>
                            /\ roc.pool_idx[i][c] = l - 1
                            /\ m[roc.pool_idx[i][c] + 1] = 1

\* C11's case: with n_ctx = 8 a context of 3 tokens was cut to max_len = 2, one sequence
\* fills the shrunk context and another is shorter and padded, and the head found the
\* classify token of the padded one at its last real slot.
C11_Witness ==
    /\ roc.stage = "pooled"
    /\ roc.n_ctx = 8
    /\ Len(roc.X[1][1]) = 3
    /\ roc.len[1][1] = params.n_ctx
    /\ roc.len[2][1] < params.n_ctx
    /\ roc.mmb[2][1][params.n_ctx] = 0
    /\ roc.pool_idx[2][1] = roc.len[2][1] - 1

\* No evaluation of the run scored above the initial best_score of 0.
NoScoreAboveZero == \A k \in DOMAIN evals : evals[k].va_acc <= 0

\* C12: the checkpoint is first written before any optimizer update and holds the
\* post-transfer, pre-training parameters; from then on a checkpoint exists at every point
\* of train() and after it, so the reload at the end never fails; and when no evaluation
\* scored above 0, train() returns with the pre-training parameters live.
C12_InitialCheckpoint ==
    /\ [][(~best_params.saved /\ best_params'.saved) =>
              /\ n_updates' = 0
              /\ evals' = <<>>
              /\ best_params'.ps = PreTrainingParams']_vars
    /\ [](n_updates > 0 => best_params.saved)
    /\ [](pc \in {"loop", "trained", "done", "failed:log", "failed:predict"} =>
              best_params.saved)
    /\ [](pc # "failed:reload")
    /\ []((TrainReturned /\ NoScoreAboveZero) => live = PreTrainingParams)

\* C12's case: a run trained for several updates, every evaluation scored 0, and train()
\* returned with the pre-training parameters, not the trained ones it evaluated.
C12_Witness ==
    /\ pc = "trained"
    /\ n_updates >= 2
    /\ evals # <<>>
    /\ NoScoreAboveZero
    /\ best_params.saved
    /\ live = PreTrainingParams
    /\ live # evals[Len(evals)].ps

\* One step of the run: log() was called (it appended its record, or it raised).
LogCalled == Logged \/ (pc' = "failed:log" /\ pc # "failed:log")

\* The schedule of log(): called exactly once by the step that ends an epoch, with the
\* incremented n_epochs; called by an optimizer update exactly when the new n_updates is
\* one of 1000, 2000, 4000, 8000, 16000, 32000 and n_epochs is 0; called by no other step.
LogSchedule ==
    /\ Len(evals') <= Len(evals) + 1
    /\ n_epochs' = n_epochs + 1 =>
          /\ LogCalled
          /\ n_updates' = n_updates
          /\ Logged => LastEval.n_epochs = n_epochs' /\ LastEval.n_updates = n_updates
    /\ n_updates' = n_updates + 1 =>
          /\ LogCalled <=> (n_updates' \in LogPoints /\ n_epochs = 0)
          /\ n_epochs' = n_epochs
          /\ Logged => LastEval.n_epochs = 0 /\ LastEval.n_updates = n_updates'
    /\ LogCalled => (n_epochs' = n_epochs + 1 \/ n_updates' = n_updates + 1)

\* C13 as stated: log() follows the schedule, and no evaluation happens before the first
\* optimizer update.
C13_LogScheduleAfterFirstUpdate ==
    /\ [][LogSchedule]_vars
    /\ [](\A k \in DOMAIN evals : evals[k].n_updates >= 1)

\* C13 as amended: log() follows the schedule, and no evaluation happens before the first
\* optimizer update when the training set holds at least one full batch; with fewer
\* examples than one batch every epoch is its end-of-epoch evaluation alone, at
\* n_updates = 0.
C13_LogScheduleFullBatch ==
    /\ [][LogSchedule]_vars
    /\ [](\A k \in DOMAIN evals :
              IF n_train >= n_batch_train
              THEN evals[k].n_updates >= 1
              ELSE evals[k].n_updates = 0 /\ evals[k].n_epochs = k)

\* C13's case: the first epoch evaluated right after update 1000 and at its end, the
\* second epoch passed update 2000 and evaluated only at its end.
C13_Witness ==
    /\ pc = "trained"
    /\ n_updates > 2000
    /\ Len(evals) = 3
    /\ evals[1].n_updates = 1000 /\ evals[1].n_epochs = 0
    /\ evals[2].n_updates > 1000 /\ evals[2].n_epochs = 1
    /\ evals[3].n_updates = n_updates /\ evals[3].n_epochs = 2

====
